---- MODULE Spec2Model ----
(***************************************************************************)
(* A model of the notpy interpreter front end: the tree-walking evaluator  *)
(* eval_ast (src/eval.py) and the tokenizer (src/lexer.py).                *)
(*                                                                         *)
(* SpecEval drives eval_ast with top-level calls on a caller-owned         *)
(* name_space; SpecLex drives one lexer object over one source text.       *)
(***************************************************************************)
EXTENDS Integers, Sequences, FiniteSets, TLC

VARIABLES
    name_space,   \* the caller's name_space dict, shared by successive calls
    call,         \* the last top-level eval_ast call: program, scope, dict before
    ret,          \* what that call returned or raised
    source,       \* Stream.source, as the sequence of its characters
    pos,          \* Stream.pos
    save,         \* lexer.save
    last          \* the last call of a lexer method: its argument, the lexer
                  \* before it, what it returned or raised, and the calls it
                  \* made on the stream

evars == <<name_space, call, ret>>
lvars == <<source, pos, save, last>>
vars == <<name_space, call, ret, source, pos, save, last>>

(***************************************************************************)
(* Bounds of the model.                                                    *)
(***************************************************************************)
MaxVal == 2        \* a call starts only from a name_space holding 0..MaxVal
MaxIter == 10      \* iterations of one while loop the model follows
MaxLen == 3        \* characters of a source text

(***************************************************************************)
(* Values.  A Fraction is n/d in lowest terms with d > 0; a bool is kept   *)
(* apart from a Fraction but counts as the number 0 or 1, as in Python.    *)
(***************************************************************************)
Abs(x) == IF x < 0 THEN -x ELSE x

RECURSIVE GCD(_, _)
GCD(a, b) == IF b = 0 THEN a ELSE GCD(b, a % b)

Fraction(n, d) ==
    LET g == GCD(Abs(n), Abs(d))
        s == IF d < 0 THEN -1 ELSE 1
    IN  [k |-> "Fraction", n |-> (s * n) \div g, d |-> (s * d) \div g]

Bool(b) == [k |-> "bool", n |-> IF b THEN 1 ELSE 0, d |-> 1]

Zero == Fraction(0, 1)
\* a str value; the model hands strings to concat only
Str(s) == [k |-> "str", s |-> s]

Truthy(v) == v.n # 0
PyEq(a, b) == a.n = b.n /\ a.d = b.d
PyLt(a, b) == a.n * b.d < b.n * a.d

RECURSIVE IntPow(_, _)
IntPow(b, e) == IF e = 0 THEN 1 ELSE b * IntPow(b, e - 1)

(***************************************************************************)
(* AST nodes (the dataclasses of src/eval.py).                             *)
(***************************************************************************)
numeric_literal(n) == [tag |-> "numeric_literal", value |-> Fraction(n, 1)]
bool_literal(b) == [tag |-> "bool_literal", value |-> Bool(b)]
string_literal(s) == [tag |-> "string_literal", value |-> Str(s)]
\* string_operation("concat", string_list); "slice" is not in the model
concat(string_list) ==
    [tag |-> "string_operation", operator |-> "concat", operands |-> string_list]
binary_operation(op, l, r) ==
    [tag |-> "binary_operation", operator |-> op, left |-> l, right |-> r]
let_var(x) == [tag |-> "let_var", name |-> x]
let(x, e1, e2) == [tag |-> "let", variable |-> x, e1 |-> e1, e2 |-> e2]
mut_var(x) == [tag |-> "mut_var", name |-> x]
get(x) == [tag |-> "get", variable |-> x]
set(x, e) == [tag |-> "set", variable |-> x, value |-> e]
if_statement(c, a, b) ==
    [tag |-> "if_statement", condition |-> c, if_exp |-> a, else_exp |-> b]
while_loop(c, b) == [tag |-> "while_loop", condition |-> c, body |-> b]
block(exps) == [tag |-> "block", exps |-> exps]

(***************************************************************************)
(* Dictionaries: lexical_scope and name_space are functions from the names *)
(* they hold to values.                                                    *)
(***************************************************************************)
EmptyDict == [x \in {} |-> Zero]
Put(dict, key, v) ==
    [x \in DOMAIN dict \cup {key} |-> IF x = key THEN v ELSE dict[x]]

(***************************************************************************)
(* Outcomes of a call: a value, or an exception (err), together with the   *)
(* two dictionaries the caller passed as the call left them.  Both are     *)
(* Python dict objects passed by reference, so whatever a callee writes    *)
(* into them is there for the caller, also when the callee raises.         *)
(***************************************************************************)
Return(v, ls, ns) == [err |-> "none", v |-> v, ls |-> ls, ns |-> ns]
Raise(e, ls, ns) == [err |-> e, v |-> Zero, ls |-> ls, ns |-> ns]

ArithOps == {"+", "-", "*", "/", "**"}
CompareOps == {"==", "!=", "<", ">"}
LogicOps == {"&&", "||"}

\* The operator applied to two operand values (lines 149-170).
ApplyOp(op, a, b, ls, ns) ==
    CASE op = "+" -> Return(Fraction(a.n * b.d + b.n * a.d, a.d * b.d), ls, ns)
      [] op = "-" -> Return(Fraction(a.n * b.d - b.n * a.d, a.d * b.d), ls, ns)
      [] op = "*" -> Return(Fraction(a.n * b.n, a.d * b.d), ls, ns)
      [] op = "/" -> IF b.n = 0 THEN Raise("ZeroDivisionError", ls, ns)
                     ELSE Return(Fraction(a.n * b.d, a.d * b.n), ls, ns)
      [] op = "**" ->
            IF b.d # 1 THEN Raise("InexactPower", ls, ns)
            ELSE IF b.n >= 0
                 THEN Return(Fraction(IntPow(a.n, b.n), IntPow(a.d, b.n)), ls, ns)
            ELSE IF a.n = 0 THEN Raise("ZeroDivisionError", ls, ns)
            ELSE Return(Fraction(IntPow(a.d, -b.n), IntPow(a.n, -b.n)), ls, ns)
      [] op = "==" -> Return(Bool(PyEq(a, b)), ls, ns)
      [] op = "!=" -> Return(Bool(~PyEq(a, b)), ls, ns)
      [] op = "<" -> Return(Bool(PyLt(a, b)), ls, ns)
      [] op = ">" -> Return(Bool(PyLt(b, a)), ls, ns)

RECURSIVE eval_ast(_, _, _)
RECURSIVE eval_while(_, _, _, _, _)
RECURSIVE eval_exps(_, _, _, _)
RECURSIVE eval_concat(_, _, _, _, _)

\* binary_operation with an arithmetic or comparison operator: left, then
\* right against the dictionaries as the left operand left them, then the
\* operator.
eval_binary(op, left, right, lexical_scope, ns) ==
    LET l == eval_ast(left, lexical_scope, ns)
        r == eval_ast(right, l.ls, l.ns)
    IN  IF l.err # "none" THEN l
        ELSE IF r.err # "none" THEN r
        ELSE ApplyOp(op, l.v, r.v, r.ls, r.ns)

\* case binary_operation("/"): the divisor is first evaluated by
\* eval_ast(right), that is with fresh empty lexical_scope and name_space.
eval_divide(left, right, lexical_scope, ns) ==
    LET chk == eval_ast(right, EmptyDict, EmptyDict)
    IN  IF chk.err # "none" THEN Raise(chk.err, lexical_scope, ns)
        ELSE IF chk.v.n = 0 THEN Raise("DivisionByZero", lexical_scope, ns)
        ELSE eval_binary("/", left, right, lexical_scope, ns)

\* eval_and as it would be were both operands evaluated before the test
eval_and_eager(left, right, lexical_scope, ns) ==
    LET l == eval_ast(left, lexical_scope, ns)
        r == eval_ast(right, l.ls, l.ns)
    IN  IF l.err # "none" THEN l
        ELSE IF r.err # "none" THEN r
        ELSE Return(Bool(Truthy(l.v) /\ Truthy(r.v)), r.ls, r.ns)

\* case binary_operation("&&"): Python's `and` evaluates its right operand
\* only when the left one is truthy.
eval_and(left, right, lexical_scope, ns) ==
    LET l == eval_ast(left, lexical_scope, ns)
        r == eval_ast(right, l.ls, l.ns)
    IN  IF l.err # "none" THEN l
        ELSE IF ~Truthy(l.v) THEN Return(Bool(FALSE), l.ls, l.ns)
        ELSE IF r.err # "none" THEN r
        ELSE Return(Bool(Truthy(r.v)), r.ls, r.ns)

\* case binary_operation("||"): Python's `or` evaluates its right operand
\* only when the left one is falsy.
eval_or(left, right, lexical_scope, ns) ==
    LET l == eval_ast(left, lexical_scope, ns)
        r == eval_ast(right, l.ls, l.ns)
    IN  IF l.err # "none" THEN l
        ELSE IF Truthy(l.v) THEN Return(Bool(TRUE), l.ls, l.ns)
        ELSE IF r.err # "none" THEN r
        ELSE Return(Bool(Truthy(r.v)), r.ls, r.ns)

\* eval_if as it would be were both branches evaluated before the choice
eval_if_both(condition, if_exp, else_exp, lexical_scope, ns) ==
    LET c == eval_ast(condition, lexical_scope, ns)
        a == eval_ast(if_exp, c.ls, c.ns)
        b == eval_ast(else_exp, a.ls, a.ns)
    IN  IF c.err # "none" THEN c
        ELSE IF a.err # "none" THEN a
        ELSE IF b.err # "none" THEN b
        ELSE Return(IF Truthy(c.v) THEN a.v ELSE b.v, b.ls, b.ns)

\* case if_statement
eval_if(condition, if_exp, else_exp, lexical_scope, ns) ==
    LET c == eval_ast(condition, lexical_scope, ns)
    IN  IF c.err # "none" THEN c
        ELSE IF Truthy(c.v) THEN eval_ast(if_exp, c.ls, c.ns)
        ELSE eval_ast(else_exp, c.ls, c.ns)

\* eval_while as it would be with `if` in place of `while`
eval_while_once(condition, body, lexical_scope, ns, fuel) ==
    LET c == eval_ast(condition, lexical_scope, ns)
        b == eval_ast(body, c.ls, c.ns)
    IN  IF c.err # "none" THEN c
        ELSE IF ~Truthy(c.v) THEN Return(Zero, c.ls, c.ns)
        ELSE IF b.err # "none" THEN b
        ELSE Return(Zero, b.ls, b.ns)

\* case while_loop; fuel counts the iterations the model still follows.
eval_while(condition, body, lexical_scope, ns, fuel) ==
    LET c == eval_ast(condition, lexical_scope, ns)
        b == eval_ast(body, c.ls, c.ns)
    IN  IF c.err # "none" THEN c
        ELSE IF ~Truthy(c.v) THEN Return(Zero, c.ls, c.ns)
        ELSE IF fuel = 0 THEN Raise("StillLooping", c.ls, c.ns)
        ELSE IF b.err # "none" THEN b
        ELSE eval_while(condition, body, b.ls, b.ns, fuel - 1)

\* The `for exp in exps` loop of case block, from expression k on, against
\* the block's local_namespace.
eval_exps(exps, k, lexical_scope, local_namespace) ==
    IF k > Len(exps) THEN Return(Zero, lexical_scope, local_namespace)
    ELSE LET r == eval_ast(exps[k], lexical_scope, local_namespace)
         IN  IF r.err # "none" THEN r
             ELSE eval_exps(exps, k + 1, r.ls, r.ns)

\* case string_operation("concat"): the `for i in string_list` loop from
\* operand k on; `final_string += value` raises TypeError unless the value is
\* a str.
eval_concat(string_list, k, final_string, lexical_scope, ns) ==
    IF k > Len(string_list) THEN Return(Str(final_string), lexical_scope, ns)
    ELSE LET r == eval_ast(string_list[k], lexical_scope, ns)
         IN  IF r.err # "none" THEN r
             ELSE IF r.v.k # "str" THEN Raise("TypeError", r.ls, r.ns)
             ELSE eval_concat(string_list, k + 1, final_string \o r.v.s, r.ls, r.ns)

\* MergeBack as it would be were name_space replaced by the local copy
MergeBack_all_keys(ns, local_namespace) == local_namespace

\* The write-back loop of case block: every key of local_namespace that is
\* in name_space takes the local value.
MergeBack(ns, local_namespace) ==
    [i \in DOMAIN ns |->
        IF i \in DOMAIN local_namespace THEN local_namespace[i] ELSE ns[i]]

\* eval_block as it would be were the expressions run against name_space
\* itself
eval_block_in_place(exps, lexical_scope, ns) ==
    LET r == eval_exps(exps, 1, lexical_scope, ns)
    IN  IF r.err # "none" THEN r
        ELSE Return(Zero, r.ls, MergeBack(ns, r.ns))

\* case block: the expressions run against local_namespace, a copy, so an
\* exception among them leaves name_space as it was.
eval_block(exps, lexical_scope, ns) ==
    LET r == eval_exps(exps, 1, lexical_scope, ns)
    IN  IF r.err # "none" THEN Raise(r.err, r.ls, ns)
        ELSE Return(Zero, r.ls, MergeBack(ns, r.ns))

\* eval_let as it would be with lexical_scope[variable.name] = temp, a write
\* into the caller's dict
eval_let_in_place(variable, e1, e2, lexical_scope, ns) ==
    LET temp == eval_ast(e1, lexical_scope, ns)
    IN  IF temp.err # "none" THEN temp
        ELSE eval_ast(e2, Put(temp.ls, variable, temp.v), temp.ns)

\* case let: e2 runs under a new dict, lexical_scope | {variable.name: temp}
eval_let(variable, e1, e2, lexical_scope, ns) ==
    LET temp == eval_ast(e1, lexical_scope, ns)
        body == eval_ast(e2, Put(temp.ls, variable, temp.v), temp.ns)
    IN  IF temp.err # "none" THEN temp
        ELSE [body EXCEPT !.ls = temp.ls]

\* eval_set as it would be were the value stored in a dict of its own
eval_set_fresh_dict(variable, value, lexical_scope, ns) ==
    LET temp == eval_ast(value, lexical_scope, ns)
    IN  IF temp.err # "none" THEN temp
        ELSE Return(Zero, temp.ls, Put(EmptyDict, variable, temp.v))

\* case set
eval_set(variable, value, lexical_scope, ns) ==
    LET temp == eval_ast(value, lexical_scope, ns)
    IN  IF temp.err # "none" THEN temp
        ELSE Return(Zero, temp.ls, Put(temp.ns, variable, temp.v))

\* Lookup as it would be were a name missing from the one dictionary looked
\* up in the other
Lookup_either(dict, name, lexical_scope, ns) ==
    IF name \in DOMAIN dict THEN Return(dict[name], lexical_scope, ns)
    ELSE IF name \in DOMAIN lexical_scope
    THEN Return(lexical_scope[name], lexical_scope, ns)
    ELSE IF name \in DOMAIN ns THEN Return(ns[name], lexical_scope, ns)
    ELSE Raise("UndefinedVariable", lexical_scope, ns)

\* case let_var / mut_var / get: a lookup in one dictionary
Lookup(dict, name, lexical_scope, ns) ==
    IF name \in DOMAIN dict THEN Return(dict[name], lexical_scope, ns)
    ELSE Raise("UndefinedVariable", lexical_scope, ns)

eval_ast(e, lexical_scope, ns) ==
    CASE e.tag = "let_var" -> Lookup(lexical_scope, e.name, lexical_scope, ns)
      [] e.tag = "let" -> eval_let(e.variable, e.e1, e.e2, lexical_scope, ns)
      [] e.tag = "mut_var" -> Lookup(ns, e.name, lexical_scope, ns)
      [] e.tag = "get" -> Lookup(ns, e.variable, lexical_scope, ns)
      [] e.tag = "set" -> eval_set(e.variable, e.value, lexical_scope, ns)
      [] e.tag \in {"numeric_literal", "bool_literal", "string_literal"} ->
            Return(e.value, lexical_scope, ns)
      [] e.tag = "string_operation" /\ e.operator = "concat" ->
            eval_concat(e.operands, 1, "", lexical_scope, ns)
      [] e.tag = "binary_operation" ->
            CASE e.operator = "/" ->
                    eval_divide(e.left, e.right, lexical_scope, ns)
              [] e.operator \in (ArithOps \cup CompareOps) \ {"/"} ->
                    eval_binary(e.operator, e.left, e.right, lexical_scope, ns)
              [] e.operator = "&&" -> eval_and(e.left, e.right, lexical_scope, ns)
              [] e.operator = "||" -> eval_or(e.left, e.right, lexical_scope, ns)
              [] OTHER -> Raise("ProgramNotSupported", lexical_scope, ns)
      [] e.tag = "if_statement" ->
            eval_if(e.condition, e.if_exp, e.else_exp, lexical_scope, ns)
      [] e.tag = "while_loop" ->
            eval_while(e.condition, e.body, lexical_scope, ns, MaxIter)
      [] e.tag = "block" -> eval_block(e.exps, lexical_scope, ns)
      [] OTHER -> Raise("ProgramNotSupported", lexical_scope, ns)

(***************************************************************************)
(* The programs the model evaluates.                                       *)
(***************************************************************************)
Names == {"i", "j"}
Lits == {numeric_literal(0), numeric_literal(1), numeric_literal(2)}
Leaves == Lits \cup {let_var("i"), get("i"), get("j")}
Ops == ArithOps \cup CompareOps \cup LogicOps \cup {"%"}

\* i + 1, j * i and the like
Steps == {binary_operation(op, get(v), e) :
            op \in {"+", "*"}, v \in Names, e \in {numeric_literal(1), get("i")}}
Sets == {set(v, e) : v \in Names, e \in Leaves \cup Steps}
\* a Set whose value expression is itself a Set
NestedSets == {set(v, set(w, numeric_literal(1))) : v \in Names, w \in Names}
Binaries == {binary_operation(op, a, b) : op \in Ops,
                a \in {numeric_literal(1), numeric_literal(2), get("i")},
                b \in {numeric_literal(0), numeric_literal(2), let_var("i"), get("j")}}
Divisions == {binary_operation("/", a, b) : a \in Leaves, b \in Leaves}
LogicSets == {binary_operation(op, a, set(v, numeric_literal(2))) :
                op \in LogicOps, a \in Leaves, v \in Names}
            \cup {binary_operation(op, set(v, numeric_literal(2)), get(v)) :
                op \in LogicOps, v \in Names}
Statements == {set("i", numeric_literal(1)), set("j", numeric_literal(1)),
               set("i", binary_operation("+", get("i"), numeric_literal(1))),
               set("j", binary_operation("*", get("j"), get("i"))),
               set("j", get("i")), get("j"),
               binary_operation("/", numeric_literal(1), numeric_literal(0))}
Blocks1 == {block(<<s>>) : s \in Statements}
Blocks2 == {block(<<s, t>>) : s \in Statements, t \in Statements}
NestedBlocks == {block(<<block(<<s>>), t>>) :
                    s \in Statements, t \in {get("i"), get("j"), set("i", get("j"))}}
                \cup {block(<<s, block(<<t>>)>>) :
                    s \in {set("i", numeric_literal(1)), set("j", numeric_literal(1))},
                    t \in Statements}
Blocks == {block(<<>>)} \cup Blocks1 \cup Blocks2 \cup NestedBlocks
\* an undefined variable, a division by zero, an operator eval_ast has no
\* case for; each after a Set, inside a Block and outside any Block
Faults == {get("j"),
           binary_operation("/", numeric_literal(1), numeric_literal(0)),
           binary_operation("%", numeric_literal(1), numeric_literal(1))}
FaultyBlocks == {block(<<set(v, numeric_literal(2)), f>>) : v \in Names, f \in Faults}
SetThenFault == {binary_operation("+", set(v, numeric_literal(2)), f) :
                    v \in Names, f \in Faults}

\* test3: let x = 4 in let x = x + 5 in x * 3
test3 ==
    let("i", numeric_literal(4),
        let("i", binary_operation("+", let_var("i"), numeric_literal(5)),
            binary_operation("*", let_var("i"), numeric_literal(3))))
LetBodies == {let_var("i"), let_var("j"), get("i"),
              binary_operation("*", let_var("i"), numeric_literal(3)),
              binary_operation("+", let_var("i"), let_var("j")),
              set("i", let_var("i")), set("j", let_var("j"))}
LetBounds == {numeric_literal(1), let_var("i"), get("j"),
              binary_operation("+", let_var("i"), numeric_literal(1))}
Lets1 == {let(x, e1, e2) : x \in Names, e1 \in LetBounds, e2 \in LetBodies}
Lets2 == {let(x, e1, let(y, e2, e3)) : x \in {"i"}, y \in Names,
            e1 \in {numeric_literal(1)},
            e2 \in LetBounds, e3 \in LetBodies}
        \cup {binary_operation("+", l, let_var("i")) : l \in Lets1}
Lets == {test3} \cup Lets1 \cup Lets2
\* the same name in both binding models: let x = 1 in Get(x), in MutVar(x),
\* and let x = 1 in (x := 2) + x
MutVars == {mut_var(v) : v \in Names}
LetGets == {let(x, numeric_literal(1), get(x)) : x \in Names}
            \cup {let(x, numeric_literal(1), mut_var(x)) : x \in Names}
ShadowedSets == {let(x, numeric_literal(1),
                     binary_operation("+", set(x, numeric_literal(2)), let_var(x))) :
                    x \in Names}

Ifs == {if_statement(c, a, b) :
            c \in {get("i"), let_var("i"), numeric_literal(0), numeric_literal(1),
                   binary_operation("<", get("i"), get("j"))},
            a \in {numeric_literal(1), set("i", numeric_literal(2)), get("j")},
            b \in {numeric_literal(2), set("j", numeric_literal(2)),
                   binary_operation("/", numeric_literal(1), numeric_literal(0))}}

\* probes of the order of evaluation: (x := 2) op x, 2 op ((i := i + 1) + 1)
\* and concatenations whose operands write, read and fail
OrderProbes == {binary_operation(op, set(v, numeric_literal(2)), get(v)) :
                    op \in ArithOps \cup CompareOps, v \in Names}
CountingRights == {binary_operation(op, numeric_literal(2),
                        binary_operation("+",
                            set("i", binary_operation("+", get("i"), numeric_literal(1))),
                            numeric_literal(1))) :
                    op \in ArithOps \cup CompareOps}
WriteThenRead ==
    concat(<<if_statement(set("i", numeric_literal(2)),
                          string_literal("a"), string_literal("b")),
             if_statement(get("i"), string_literal("c"), string_literal("d"))>>)
Concats == {concat(<<string_literal("a"), string_literal("b")>>),
            WriteThenRead,
            concat(<<get("j"),
                     binary_operation("/", numeric_literal(1), numeric_literal(0))>>),
            concat(<<string_literal("a"), set("i", numeric_literal(2)), get("j")>>)}

\* a condition that writes: if (i := i + 1) .. and if (i := i + 1) == 0 ..
CountingIfs == {if_statement(c, set("j", get("i")), numeric_literal(2)) :
                    c \in {set("i", binary_operation("+", get("i"), numeric_literal(1))),
                           binary_operation("==",
                                set("i", binary_operation("+", get("i"), numeric_literal(1))),
                                numeric_literal(0))}}

\* test6: while i < 10 { i = i + 1; j = j * i }
TestLimit == 10
TestFactorial == 3628800
WhileBody ==
    block(<<set("i", binary_operation("+", get("i"), numeric_literal(1))),
            set("j", binary_operation("*", get("j"), get("i")))>>)
test6 == while_loop(binary_operation("<", get("i"), numeric_literal(TestLimit)),
                    WhileBody)
Whiles == {test6}
        \cup {while_loop(binary_operation("<", get(v), numeric_literal(n)), b) :
                v \in Names, n \in {1, 2, 3},
                b \in {WhileBody,
                       block(<<set("i", binary_operation("+", get("i"), numeric_literal(1)))>>),
                       block(<<set("j", binary_operation("+", get("j"), numeric_literal(1))),
                               set("i", get("j"))>>),
                       set("i", binary_operation("+", get("i"), numeric_literal(1)))}}

Programs == Leaves \cup Sets \cup Binaries \cup Divisions \cup LogicSets
            \cup Blocks \cup Lets \cup Ifs \cup Whiles
            \cup NestedSets \cup MutVars \cup LetGets \cup ShadowedSets
            \cup CountingIfs \cup FaultyBlocks \cup SetThenFault
            \cup OrderProbes \cup CountingRights \cup Concats

\* The lexical scopes a caller supplies; a program that never reads the
\* scope is called with the empty one only.
Scopes == {EmptyDict, [x \in {"i"} |-> Zero], [x \in {"i"} |-> Fraction(2, 1)]}

RECURSIVE ReadsScope(_)
ReadsScope(e) ==
    CASE e.tag \in {"let_var", "let"} -> TRUE
      [] e.tag = "binary_operation" -> ReadsScope(e.left) \/ ReadsScope(e.right)
      [] e.tag = "set" -> ReadsScope(e.value)
      [] e.tag = "if_statement" ->
            ReadsScope(e.condition) \/ ReadsScope(e.if_exp) \/ ReadsScope(e.else_exp)
      [] e.tag = "while_loop" -> ReadsScope(e.condition) \/ ReadsScope(e.body)
      [] e.tag = "block" -> \E k \in 1..Len(e.exps) : ReadsScope(e.exps[k])
      [] OTHER -> FALSE

ScopesFor(p) == IF ReadsScope(p) THEN Scopes ELSE {EmptyDict}

(***************************************************************************)
(* The state machine of the evaluator: a caller owning one name_space dict *)
(* makes top-level calls eval_ast(program, lexical_scope, name_space).     *)
(***************************************************************************)
InRange(ns) == \A x \in DOMAIN ns : ns[x].d = 1 /\ ns[x].n \in 0..MaxVal

NoCall == [prog |-> block(<<>>), scope |-> EmptyDict, before |-> EmptyDict,
           kind |-> "none"]
NoRet == Return(Zero, EmptyDict, EmptyDict)

\* no lexer is in use while the evaluator runs
InitEval ==
    /\ name_space = EmptyDict
    /\ call = NoCall
    /\ ret = NoRet
    /\ source = <<>>
    /\ pos = 0
    /\ save = [type |-> "None", word |-> "", n |-> 0]
    /\ last = [op |-> "none"]

\* eval_ast(p, ls, name_space) with the caller's dictionary
EvalCall ==
    \E p \in Programs : \E ls \in ScopesFor(p) :
        LET r == eval_ast(p, ls, name_space)
        IN  /\ call.kind = "none"
            /\ InRange(name_space)
            /\ r.err \notin {"StillLooping", "InexactPower"}
            /\ call' = [prog |-> p, scope |-> ls, before |-> name_space,
                        kind |-> "call"]
            /\ ret' = r
            /\ name_space' = r.ns
            /\ UNCHANGED lvars

\* eval_ast(p): lexical_scope and name_space default to fresh empty dicts
EvalDefault ==
    \E p \in Programs :
        LET r == eval_ast(p, EmptyDict, EmptyDict)
        IN  /\ call.kind = "none"
            /\ r.err \notin {"StillLooping", "InexactPower"}
            /\ call' = [prog |-> p, scope |-> EmptyDict, before |-> EmptyDict,
                        kind |-> "default"]
            /\ ret' = r
            /\ UNCHANGED <<name_space, lvars>>

\* The caller goes on past the call (its result asserted on or dropped),
\* keeping its name_space dict for the calls that follow.
Continue ==
    /\ call.kind # "none"
    /\ call' = NoCall
    /\ ret' = NoRet
    /\ UNCHANGED <<name_space, lvars>>

\* name_space = {} in the caller (test6, test7)
NewNamespace ==
    /\ call.kind = "none"
    /\ name_space # EmptyDict
    /\ name_space' = EmptyDict
    /\ UNCHANGED <<call, ret, lvars>>

NextEval == EvalCall \/ EvalDefault \/ Continue \/ NewNamespace

SpecEval == InitEval /\ [][NextEval]_vars

(***************************************************************************)
(* The tokenizer (src/lexer.py).  A token is a record; None is Python's    *)
(* None, which next_token also returns when no case of its match applies.  *)
(***************************************************************************)
Num(n) == [type |-> "Num", word |-> "", n |-> n]
Keyword(w) == [type |-> "Keyword", word |-> w, n |-> 0]
Identifier(w) == [type |-> "Identifier", word |-> w, n |-> 0]
String(w) == [type |-> "String", word |-> w, n |-> 0]
Operator(w) == [type |-> "Operator", word |-> w, n |-> 0]
None == [type |-> "None", word |-> "", n |-> 0]

keywords == {"print", "var", "true", "false", "if", "else", "then", "for",
             "while", "return", "end", "do", "List", "let", "in"}
\* the one-character entries of the list `operators`: the only strings a
\* single character c can equal in `c in operators`
operators == {",", ".", ";", "+", "-", "*", "%", ">", "<", "!", "^",
              "(", ")", "[", "]", "="}
white_space == {" ", "\t", "\n"}
Digits == {"0", "1", "2", "3", "4", "5", "6", "7", "8", "9"}
Letters == {"a", "b", "c", "d", "e", "f", "g", "h", "i", "j", "k", "l", "m",
            "n", "o", "p", "q", "r", "s", "t", "u", "v", "w", "x", "y", "z"}
isdigit(c) == c \in Digits
isalpha(c) == c \in Letters
int(c) == CASE c = "0" -> 0 [] c = "1" -> 1 [] c = "2" -> 2 [] c = "3" -> 3
            [] c = "4" -> 4 [] c = "5" -> 5 [] c = "6" -> 6 [] c = "7" -> 7
            [] c = "8" -> 8 [] c = "9" -> 9

\* What a scan hands back: a token or an exception, Stream.pos after it,
\* and the calls it made on the stream, in order: "next_char" for a call
\* that returned a character, "EndOfTokens" for a call of next_char that
\* raised, "prev_char".
Scanned(tok, p) == [tok |-> tok, exc |-> "none", pos |-> p, calls |-> <<>>]
ScanRaised(exc, p) == [tok |-> None, exc |-> exc, pos |-> p, calls |-> <<>>]
\* the stream calls cs, then what r did
Calls(cs, r) == [r EXCEPT !.calls = cs \o @]

\* Stream.next_char succeeds at p exactly when p < len(source); the
\* character read is then src[p + 1] (sequences count from 1) and pos p + 1.
AtEnd(src, p) == p >= Len(src)

\* Stream.prev_char as it would be were two characters pushed back
prev_char_twice(p) == p - 2

\* Stream.prev_char with Stream.pos = p: the position after it
prev_char(p) == p - 1

\* lexer.number, after its first digit: p is Stream.pos, n the value so far
RECURSIVE number(_, _, _)
number(src, p, n) ==
    IF AtEnd(src, p) THEN Calls(<<"EndOfTokens">>, Scanned(Num(n), p))
    ELSE IF isdigit(src[p + 1])
    THEN Calls(<<"next_char">>, number(src, p + 1, n * 10 + int(src[p + 1])))
    ELSE Calls(<<"next_char", "prev_char">>, Scanned(Num(n), prev_char(p + 1)))

Word(word) == IF word \in keywords THEN Keyword(word) ELSE Identifier(word)

\* lexer.identifier, after its first letter
RECURSIVE identifier(_, _, _)
identifier(src, p, word) ==
    IF AtEnd(src, p) THEN Calls(<<"EndOfTokens">>, Scanned(Word(word), p))
    ELSE IF isalpha(src[p + 1])
    THEN Calls(<<"next_char">>, identifier(src, p + 1, word \o src[p + 1]))
    ELSE Calls(<<"next_char", "prev_char">>, Scanned(Word(word), prev_char(p + 1)))

\* lexer.string, after the opening quote
RECURSIVE string(_, _, _)
string(src, p, str) ==
    IF AtEnd(src, p) THEN Calls(<<"EndOfTokens">>, ScanRaised("EndOfTokens", p))
    ELSE IF src[p + 1] = "\"" THEN Calls(<<"next_char">>, Scanned(String(str), p + 1))
    ELSE Calls(<<"next_char">>, string(src, p + 1, str \o src[p + 1]))

\* One branch of lexer.operator: read a character; if it is `second` the
\* token is `both`, else push it back and the token is `one`.  At the end
\* of the input next_char raises and nothing catches it short of next_token.
Paired(src, p, second, both, one) ==
    IF AtEnd(src, p) THEN Calls(<<"EndOfTokens">>, ScanRaised("EndOfTokens", p))
    ELSE IF src[p + 1] = second
    THEN Calls(<<"next_char">>, Scanned(Operator(both), p + 1))
    ELSE Calls(<<"next_char", "prev_char">>,
               Scanned(Operator(one), prev_char(p + 1)))

\* lexer.operator(c), with Stream.pos = p after c
operator(c, src, p) ==
    CASE c = "=" -> Paired(src, p, "=", "==", "=")
      [] c = "!" -> Paired(src, p, "=", "!=", "!")
      [] c = ">" -> Paired(src, p, "=", ">=", ">")
      [] c = "<" -> Paired(src, p, "=", "<=", "<")
      [] c = "&" -> Paired(src, p, "&", "and", "&")
      [] c = "|" -> Paired(src, p, "|", "or", "|")
      [] c = "^" -> Paired(src, p, "^", "**", "^")
      [] OTHER -> Scanned(Operator(c), p)

\* lexer.next_token with Stream.pos = p.  A character that is in none of the
\* classes falls out of the match statement and the method returns None.
RECURSIVE next_token(_, _)
next_token(src, p) ==
    IF AtEnd(src, p) THEN Calls(<<"EndOfTokens">>, ScanRaised("EndOfTokens", p))
    ELSE LET c == src[p + 1]
         IN  Calls(<<"next_char">>,
               CASE c \in operators -> operator(c, src, p + 1)
                 [] isdigit(c) -> number(src, p + 1, int(c))
                 [] isalpha(c) -> identifier(src, p + 1, c)
                 [] c = "\"" -> string(src, p + 1, "")
                 [] c \in white_space -> next_token(src, p + 1)
                 [] OTHER -> Scanned(None, p + 1))

\* What a method of the lexer hands back: its value or exception, the
\* lexer's fields after it, and the calls made on the stream (put in by
\* Calls).
Outcome(out, exc, p, sv) ==
    [out |-> out, exc |-> exc, pos |-> p, save |-> sv, calls |-> <<>>]

\* lexer.peek_token
peek_token(src, p, sv) ==
    IF sv # None THEN Outcome(sv, "none", p, sv)
    ELSE LET t == next_token(src, p)
         IN  IF t.exc = "EndOfTokens"
             THEN Calls(t.calls, Outcome(None, "none", t.pos, sv))
             ELSE Calls(t.calls, Outcome(t.tok, "none", t.pos, t.tok))

\* lexer.advance
advance(src, p, sv) ==
    IF sv # None THEN Outcome(None, "none", p, None)
    ELSE LET pk == peek_token(src, p, sv)
             t == next_token(src, pk.pos)
         IN  IF pk.out # None
             THEN Calls(pk.calls \o t.calls, Outcome(None, t.exc, t.pos, pk.save))
             ELSE Calls(pk.calls, Outcome(None, "EndOfTokens", pk.pos, pk.save))

\* lexer.match
match(src, p, sv, expected) ==
    LET pk == peek_token(src, p, sv)
    IN  IF pk.out = expected THEN Calls(pk.calls, advance(src, pk.pos, pk.save))
        ELSE Calls(pk.calls, Outcome(None, "TokenError", pk.pos, pk.save))

\* lexer.__next__
iter_next(src, p, sv) ==
    LET t == next_token(src, p)
    IN  IF t.exc = "EndOfTokens"
        THEN Calls(t.calls, Outcome(None, "StopIteration", t.pos, sv))
        ELSE Calls(t.calls, Outcome(t.tok, "none", t.pos, sv))

(***************************************************************************)
(* The state machine of the tokenizer: one lexer over one source text, its *)
(* methods called in any order.                                            *)
(***************************************************************************)
Chars == {"1", "2", "i", "f", " ", "=", ">", "^", "+", "&", "\""}

RECURSIVE Texts(_)
Texts(n) ==
    IF n = 0 THEN {<<>>}
    ELSE LET shorter == Texts(n - 1)
         IN  shorter \cup {Append(t, c) : t \in {u \in shorter : Len(u) = n - 1},
                                         c \in Chars}
Sources == Texts(MaxLen)

Method(op, arg, o) ==
    /\ last' = [op |-> op, arg |-> arg, out |-> o.out, exc |-> o.exc,
                pos0 |-> pos, save0 |-> save, calls |-> o.calls]
    /\ pos' = o.pos
    /\ save' = o.save
    /\ UNCHANGED <<source, evars>>

\* Stream.streamFromString(s), lexer.lexerFromStream(stream); no evaluation
\* is under way while the lexer runs
InitLex ==
    /\ source \in Sources
    /\ pos = 0
    /\ save = None
    /\ last = [op |-> "lexerFromStream", arg |-> None, out |-> None,
               exc |-> "none", pos0 |-> 0, save0 |-> None, calls |-> <<>>]
    /\ name_space = EmptyDict
    /\ call = NoCall
    /\ ret = NoRet

NextToken ==
    LET t == next_token(source, pos)
    IN  Method("next_token", None,
               Calls(t.calls, Outcome(t.tok, t.exc, t.pos, save)))

PeekToken == Method("peek_token", None, peek_token(source, pos, save))

Advance == Method("advance", None, advance(source, pos, save))

\* the caller expects either the token that comes next or some other one
Match ==
    \E expected \in {peek_token(source, pos, save).out, Num(1), Operator("=")} \ {None} :
        Method("match", expected, match(source, pos, save, expected))

IterNext == Method("__next__", None, iter_next(source, pos, save))

NextLex == NextToken \/ PeekToken \/ Advance \/ Match \/ IterNext

SpecLex == InitLex /\ [][NextLex]_vars

(***************************************************************************)
(* Claims about the evaluator, checked under SpecEval.                     *)
(***************************************************************************)
Completed == call.kind = "call" /\ ret.err = "none"

\* What a leaf expression denotes in a scope and a name_space, read off the
\* dictionaries directly.
LeafDefined(e, ls, ns) ==
    CASE e.tag = "let_var" -> e.name \in DOMAIN ls
      [] e.tag = "get" -> e.variable \in DOMAIN ns
      [] OTHER -> TRUE
LeafValue(e, ls, ns) ==
    CASE e.tag = "let_var" -> ls[e.name]
      [] e.tag = "get" -> ns[e.variable]
      [] OTHER -> e.value

\* The block's local copy after its last expression: the expressions run one
\* after the other as calls of their own on a copy of the dictionary.
RECURSIVE LocalCopy(_, _, _)
LocalCopy(exps, ls, ns) ==
    IF exps = <<>> THEN ns
    ELSE LocalCopy(Tail(exps), ls, eval_ast(Head(exps), ls, ns).ns)

\* A completed Block leaves the keys it found, with the local copy's values,
\* and a Get of a variable it declared fails afterwards.
BlockScoping ==
    (Completed /\ call.prog.tag = "block") =>
        LET local == LocalCopy(call.prog.exps, call.scope, call.before)
        IN  /\ DOMAIN name_space = DOMAIN call.before
            /\ \A x \in DOMAIN call.before : name_space[x] = local[x]
            /\ \A x \in DOMAIN local \ DOMAIN call.before :
                    eval_ast(get(x), EmptyDict, name_space).err = "UndefinedVariable"

\* A Get in the outer block of a variable first Set in a nested block fails.
NestedBlockScoping ==
    \A x \in Names :
        (call.kind = "call" /\ x \notin DOMAIN call.before
         /\ call.prog = block(<<block(<<set(x, numeric_literal(1))>>), get(x)>>))
            => (ret.err = "UndefinedVariable" /\ name_space = call.before)

\* C1: when a Block completes, the name_space it ran against has exactly the
\* keys it had before; each of them holds the value of the block's local copy
\* after the last expression; a variable first Set inside the block is absent
\* again, so a following Get of it raises UndefinedVariable; and inside an
\* enclosing block a variable first Set in a nested block is undefined once
\* the nested block has ended.
C1_Block == BlockScoping /\ NestedBlockScoping

\* a block that changed a variable it found and declared one it did not find
C1_Witness ==
    /\ Completed /\ call.prog.tag = "block"
    /\ \E x \in DOMAIN call.before : name_space[x] # call.before[x]
    /\ \E e \in {call.prog.exps[k] : k \in 1..Len(call.prog.exps)} :
            e.tag = "set" /\ e.variable \notin DOMAIN call.before

\* leaf && Set(x, 2), leaf || Set(x, 2)
IsLogicSet(e) ==
    /\ e.tag = "binary_operation" /\ e.operator \in LogicOps
    /\ e.left \in Leaves /\ e.right.tag = "set"
    /\ e.right.value = numeric_literal(2)

\* C2 as stated: after && or || whose right operand is a Set, the write is in
\* the name_space whatever the left operand was.
C2_BothOperandsEvaluated ==
    (Completed /\ IsLogicSet(call.prog)) =>
        /\ call.prog.right.variable \in DOMAIN name_space
        /\ name_space[call.prog.right.variable] = Fraction(2, 1)

\* C2 as amended: the left operand is always evaluated; the right operand is
\* evaluated exactly when the left one does not decide the result (left
\* truthy for &&, left falsy for ||), and only then is its Set in the
\* name_space; otherwise the name_space is as the left operand left it.
C2_ShortCircuit ==
    /\ (Completed /\ IsLogicSet(call.prog)) =>
            LET e == call.prog
                lt == Truthy(LeafValue(e.left, call.scope, call.before))
                rightRuns == IF e.operator = "&&" THEN lt ELSE ~lt
            IN  /\ name_space = IF rightRuns
                                THEN Put(call.before, e.right.variable, Fraction(2, 1))
                                ELSE call.before
                /\ ret.v = Bool(e.operator = "||" /\ lt)
    /\ \A x \in Names, op \in LogicOps :
        (call.kind = "call"
         /\ call.prog = binary_operation(op, set(x, numeric_literal(2)), get(x)))
            => /\ ret.err = "none"
               /\ name_space = Put(call.before, x, Fraction(2, 1))
               /\ ret.v = Bool(op = "||")

\* the left operand decided the result and the Set on the right did not run
C2_Witness ==
    /\ Completed /\ IsLogicSet(call.prog)
    /\ call.prog.operator = "&&"
    /\ ~Truthy(LeafValue(call.prog.left, call.scope, call.before))
    /\ call.prog.right.variable \notin DOMAIN name_space

\* C3: a division whose operands are defined raises DivisionByZero when the
\* divisor's value in the scope and name_space of the call is zero, and
\* otherwise returns the exact quotient of the two values.
C3_Division ==
    (call.kind = "call" /\ call.prog \in Divisions
     /\ LeafDefined(call.prog.left, call.scope, call.before)
     /\ LeafDefined(call.prog.right, call.scope, call.before)) =>
        LET a == LeafValue(call.prog.left, call.scope, call.before)
            b == LeafValue(call.prog.right, call.scope, call.before)
        IN  IF b.n = 0 THEN ret.err = "DivisionByZero"
            ELSE ret.err = "none" /\ ret.v = Fraction(a.n * b.d, a.d * b.n)

OneOne == [x \in Names |-> Fraction(1, 1)]
Increments == {WhileBody,
               block(<<set("i", binary_operation("+", get("i"), numeric_literal(1)))>>)}
IsCountingLoop(e) ==
    /\ e.tag = "while_loop" /\ e.body \in Increments
    /\ e.condition.left = get("i")

\* C6: test6's loop, started with i = 1 and j = 1, ends, returns zero and
\* leaves i = 10 and j = 10!; a loop `while v < n` over a Block ends with the
\* value zero at the first falsy condition, having seen in each condition the
\* writes of the iteration before.
C6_WhileLoop ==
    /\ (call.kind = "none" /\ name_space = OneOne) =>
            eval_ast(test6, EmptyDict, name_space).err = "none"
    /\ (call.kind = "call" /\ call.prog = test6 /\ call.before = OneOne) =>
            /\ ret.err = "none" /\ ret.v = Zero
            /\ name_space = [x \in Names |->
                    IF x = "i" THEN Fraction(TestLimit, 1)
                    ELSE Fraction(TestFactorial, 1)]
    /\ (Completed /\ call.prog \in Whiles /\ call.prog.body.tag = "block") =>
            /\ ret.v = Zero
            /\ ~PyLt(name_space[call.prog.condition.left.variable],
                     call.prog.condition.right.value)
    /\ (Completed /\ IsCountingLoop(call.prog)) =>
            LET n == call.prog.condition.right.value
            IN  name_space["i"] =
                    IF PyLt(call.before["i"], n) THEN n ELSE call.before["i"]

C6_Witness ==
    /\ Completed /\ call.prog = test6 /\ call.before = OneOne
    /\ name_space["j"] = Fraction(TestFactorial, 1)

\* What a bound expression of LetBounds denotes, read off the dictionaries.
BoundDefined(e, ls, ns) ==
    IF e.tag = "binary_operation" THEN LeafDefined(e.left, ls, ns)
    ELSE LeafDefined(e, ls, ns)
BoundValue(e, ls, ns) ==
    IF e.tag = "binary_operation"
    THEN Fraction(LeafValue(e.left, ls, ns).n + 1, 1)
    ELSE LeafValue(e, ls, ns)

\* C7: a Let evaluates its bound expression under the scope S of the call
\* (a reference to the same name there is the outer binding), its body under
\* S with the variable bound to that value, and leaves the caller's S as it
\* was; test3 is 27.
C7_Let ==
    /\ (call.kind # "none" /\ call.prog = test3) =>
            ret.err = "none" /\ ret.v = Fraction(27, 1)
    /\ (call.kind = "call" /\ call.prog.tag = "let") =>
            /\ ret.ls = call.scope
            /\ (call.prog.e1 \in LetBounds /\ call.prog.e2.tag = "let_var") =>
                LET e == call.prog
                    S == call.scope
                IN  IF ~BoundDefined(e.e1, S, call.before)
                    THEN ret.err = "UndefinedVariable"
                    ELSE LET inner == Put(S, e.variable,
                                          BoundValue(e.e1, S, call.before))
                         IN  IF e.e2.name \in DOMAIN inner
                             THEN ret.err = "none" /\ ret.v = inner[e.e2.name]
                             ELSE ret.err = "UndefinedVariable"

\* let i = i + 1 in i, called with a scope that binds i
C7_Witness ==
    /\ Completed
    /\ call.prog = let("i", binary_operation("+", let_var("i"), numeric_literal(1)),
                       let_var("i"))
    /\ "i" \in DOMAIN call.scope
    /\ ret.v = Fraction(call.scope["i"].n + 1, 1)
    /\ ret.ls = call.scope

(***************************************************************************)
(* Claims about the tokenizer, checked under SpecLex.                      *)
(***************************************************************************)
\* The tokens still to come as next_token delivers them from position p,
\* and as a client of the lookahead protocol is owed them: the saved token
\* first, when there is one.
RECURSIVE TokensFrom(_, _)
TokensFrom(src, p) ==
    LET t == next_token(src, p)
    IN  IF t.exc # "none" THEN <<>> ELSE <<t.tok>> \o TokensFrom(src, t.pos)
Upcoming(src, p, sv) ==
    IF sv # None THEN <<sv>> \o TokensFrom(src, p) ELSE TokensFrom(src, p)

\* a source of digits, letters, whitespace and listed operator characters
Recognised(src) ==
    \A k \in 1..Len(src) :
        src[k] \in Digits \cup Letters \cup white_space \cup operators

\* C4: advance() consumes exactly one token whether or not one was peeked:
\* it raises EndOfTokens only when no token remains, and otherwise the tokens
\* still to come are the former ones without the first, so that peek_token()
\* then returns the token after the one consumed.
C4_AdvanceConsumesOne ==
    (last.op = "advance" /\ Recognised(source)) =>
        LET owed == Upcoming(source, last.pos0, last.save0)
        IN  IF owed = <<>> THEN last.exc = "EndOfTokens"
            ELSE /\ last.exc = "none"
                 /\ Upcoming(source, pos, save) = Tail(owed)
                 /\ peek_token(source, pos, save).out =
                        IF Len(owed) >= 2 THEN owed[2] ELSE None

\* C5: scanning at "&&" gives Operator(and) and consumes both characters;
\* scanning at a lone "&" gives Operator(&) and leaves the stream just after
\* it, the character that follows still to be read.
C5_AndOperator ==
    (/\ last.op = "next_token"
     /\ last.pos0 + 2 <= Len(source)
     /\ source[last.pos0 + 1] = "&") =>
        IF source[last.pos0 + 2] = "&"
        THEN last.out = Operator("and") /\ pos = last.pos0 + 2
        ELSE last.out = Operator("&") /\ pos = last.pos0 + 1

\* The maximal-munch segmentation of a source, read off the text: runs of
\* digits, runs of letters, the two-character operators, single operator
\* characters; whitespace separates and yields nothing.
RECURSIVE RunEnd(_, _, _)
RunEnd(src, p, class) ==
    IF p < Len(src) /\ src[p + 1] \in class THEN RunEnd(src, p + 1, class) ELSE p
RECURSIVE Decimal(_, _, _)
Decimal(src, from, to) ==
    IF to < from THEN 0 ELSE Decimal(src, from, to - 1) * 10 + int(src[to])
RECURSIVE Spelled(_, _, _)
Spelled(src, from, to) ==
    IF to < from THEN "" ELSE Spelled(src, from, to - 1) \o src[to]
TwoCharOperators == {"==", "!=", ">=", "<="}
RECURSIVE Munch(_, _)
Munch(src, p) ==
    IF p >= Len(src) THEN <<>>
    ELSE LET c == src[p + 1]
         IN  CASE c \in white_space -> Munch(src, p + 1)
               [] c \in Digits ->
                    LET e == RunEnd(src, p, Digits)
                    IN  <<Num(Decimal(src, p + 1, e))>> \o Munch(src, e)
               [] c \in Letters ->
                    LET e == RunEnd(src, p, Letters)
                        w == Spelled(src, p + 1, e)
                    IN  <<IF w \in keywords THEN Keyword(w) ELSE Identifier(w)>>
                            \o Munch(src, e)
               [] OTHER ->
                    IF p + 2 <= Len(src) /\ (c \o src[p + 2]) \in TwoCharOperators
                    THEN <<Operator(c \o src[p + 2])>> \o Munch(src, p + 2)
                    ELSE <<Operator(c)>> \o Munch(src, p + 1)

\* C8: for a source of digits, letters, whitespace and listed operator
\* characters, the tokens delivered are the maximal-munch segmentation: a
\* scan hands back the first token of the segmentation of the text not yet
\* read and leaves the rest of that segmentation to come, and it ends the
\* input only when that segmentation is empty.
C8_MaximalMunch ==
    (last.op \in {"next_token", "__next__"} /\ Recognised(source)) =>
        LET m == Munch(source, last.pos0)
        IN  IF m = <<>> THEN last.exc \in {"EndOfTokens", "StopIteration"}
            ELSE /\ last.exc = "none"
                 /\ last.out = Head(m)
                 /\ TokensFrom(source, pos) = Tail(m)

\* C9: peek_token() does not consume: a second peek_token() right after one
\* returns the same value and changes neither pos nor save; and None is
\* returned only when no further token is to come.
C9_PeekDoesNotConsume ==
    last.op = "peek_token" =>
        LET again == peek_token(source, pos, save)
        IN  /\ again.out = last.out
            /\ again.pos = pos
            /\ again.save = save
            /\ last.out = None =>
                    \A k \in 1..Len(TokensFrom(source, pos)) :
                        TokensFrom(source, pos)[k] = None

\* C10: match(expected) consumes exactly one token when the next token, as
\* peek_token() shows it, equals expected; otherwise it raises TokenError
\* and consumes nothing: a following peek_token() shows the same token and
\* a following match(expected) fails again.
C10_Match ==
    last.op = "match" =>
        LET seen == peek_token(source, last.pos0, last.save0).out
        IN  IF seen = last.arg
            THEN /\ last.exc = "none"
                 /\ Upcoming(source, pos, save) =
                        Tail(Upcoming(source, last.pos0, last.save0))
            ELSE /\ last.exc = "TokenError"
                 /\ peek_token(source, pos, save).out = seen
                 /\ match(source, pos, save, last.arg).exc = "TokenError"

IsSuffix(s, t) == Len(s) <= Len(t) /\ s = SubSeq(t, Len(t) - Len(s) + 1, Len(t))

\* C11: whatever peek_token() calls came between the steps, an iteration
\* step delivers the first of the tokens still owed (the peeked token first,
\* then those of the text not yet read) and leaves the others owed, so that
\* every token is delivered once and in source order; it ends the iteration
\* only when no token is owed.
C11_IterationDeliversAll ==
    (/\ last.op = "__next__" /\ Recognised(source)
     /\ IsSuffix(Upcoming(source, last.pos0, last.save0), TokensFrom(source, 0))) =>
        LET owed == Upcoming(source, last.pos0, last.save0)
        IN  IF owed = <<>> THEN last.exc = "StopIteration"
            ELSE /\ last.exc = "none"
                 /\ last.out = Head(owed)
                 /\ Upcoming(source, pos, save) = Tail(owed)

\* the text at p opens a string that the rest of the source never closes
Unterminated(src, p) ==
    /\ p < Len(src) /\ src[p + 1] = "\""
    /\ \A k \in (p + 2)..Len(src) : src[k] # "\""

\* C12: a scan that starts at a double-quote which the rest of the source
\* never closes fails with UnterminatedString, an error other than the end
\* of input: next_token raises it, peek_token does not return None for it
\* and the iteration does not end normally on it.
C12_UnterminatedString ==
    (/\ last.op \in {"next_token", "peek_token", "__next__"}
     /\ last.save0 = None
     /\ Unterminated(source, last.pos0)) =>
        last.exc = "UnterminatedString"

(***************************************************************************)
(* Further claims about the evaluator, checked under SpecEval.             *)
(***************************************************************************)
\* C13: a completed Set(x, e) on the caller's name_space returns zero and
\* leaves x holding the value of e, a new key when x was absent; every other
\* key is as the evaluation of e left it (as it was before, when e is a leaf
\* or an arithmetic step); a following Get(x) or MutVar(x) against the same
\* name_space returns that value; and a call without a name_space starts
\* from an empty one, whatever the caller's dict holds.
C13_Set ==
    /\ (Completed /\ call.prog.tag = "set") =>
        LET e == call.prog
            inner == eval_ast(e.value, call.scope, call.before)
        IN  /\ ret.v = Zero
            /\ DOMAIN name_space = DOMAIN inner.ns \cup {e.variable}
            /\ name_space[e.variable] = inner.v
            /\ \A x \in DOMAIN inner.ns \ {e.variable} : name_space[x] = inner.ns[x]
            /\ (e.value \in Leaves) =>
                    /\ name_space[e.variable] = LeafValue(e.value, call.scope, call.before)
                    /\ inner.ns = call.before
            /\ (e.value \in Steps) => inner.ns = call.before
            /\ (e.value.tag = "set") =>
                    /\ name_space[e.variable] = Zero
                    /\ inner.ns = Put(call.before, e.value.variable, Fraction(1, 1))
            /\ eval_ast(get(e.variable), EmptyDict, name_space)
                    = Return(inner.v, EmptyDict, name_space)
            /\ eval_ast(mut_var(e.variable), EmptyDict, name_space)
                    = Return(inner.v, EmptyDict, name_space)
    /\ (call.kind = "default" /\ call.prog.tag = "get") =>
            ret.err = "UndefinedVariable"
    /\ (call.kind = "default" /\ call.prog.tag = "set" /\ call.prog.value \in Lits) =>
            /\ ret.err = "none"
            /\ ret.ns = Put(EmptyDict, call.prog.variable, call.prog.value.value)

\* a Set created a key next to one the name_space already had
C13_Witness ==
    /\ Completed /\ call.prog.tag = "set"
    /\ call.prog.variable \notin DOMAIN call.before
    /\ call.before # EmptyDict
    /\ name_space[call.prog.variable] # Zero
    /\ \A x \in DOMAIN call.before : name_space[x] = call.before[x]

(***************************************************************************)
(* Further claims about the tokenizer, checked under SpecLex.              *)
(***************************************************************************)
PairedOperatorChars == {"=", "!", ">", "<", "^"}
PairingChar(c) == IF c = "^" THEN "^" ELSE "="

\* C15: when next_token reads one of = ! > < ^ and the character after it
\* is not its pairing character (or there is none), it returns the
\* one-character operator and leaves the stream just after that character;
\* when that character was the last of the input, only the scan after it
\* raises EndOfTokens.
C15_SingleCharOperator ==
    (/\ last.op = "next_token"
     /\ last.pos0 < Len(source)
     /\ source[last.pos0 + 1] \in PairedOperatorChars
     /\ (last.pos0 + 2 <= Len(source) =>
            source[last.pos0 + 2] # PairingChar(source[last.pos0 + 1]))) =>
        /\ last.exc = "none"
        /\ last.out = Operator(source[last.pos0 + 1])
        /\ pos = last.pos0 + 1
        /\ (pos = Len(source)) => next_token(source, pos).exc = "EndOfTokens"

(***************************************************************************)
(* Further claims about the evaluator (continued).                         *)
(***************************************************************************)
\* C16: LetVar(x) is resolved in the lexical scope alone and is undefined
\* when only the name_space binds x; Get(x) and MutVar(x) are resolved in
\* the name_space alone and are undefined when only an enclosing Let binds
\* x; a Set(x, ..) in the body of Let(x, ..) leaves LetVar(x) at the Let's
\* value; and a Let whose body holds no Set leaves the name_space as it was.
C16_BindingModels ==
    /\ (call.kind = "call" /\ call.prog.tag = "let_var") =>
            IF call.prog.name \in DOMAIN call.scope
            THEN ret.err = "none" /\ ret.v = call.scope[call.prog.name]
            ELSE ret.err = "UndefinedVariable"
    /\ (call.kind = "call" /\ call.prog.tag \in {"get", "mut_var"}) =>
            LET x == IF call.prog.tag = "get" THEN call.prog.variable
                     ELSE call.prog.name
            IN  IF x \in DOMAIN call.before
                THEN ret.err = "none" /\ ret.v = call.before[x]
                ELSE ret.err = "UndefinedVariable"
    /\ (call.kind = "call" /\ call.prog \in LetGets) =>
            LET x == call.prog.variable
            IN  IF x \in DOMAIN call.before
                THEN ret.err = "none" /\ ret.v = call.before[x]
                ELSE ret.err = "UndefinedVariable"
    /\ (call.kind = "call" /\ call.prog \in ShadowedSets) =>
            /\ ret.err = "none" /\ ret.v = Fraction(1, 1)
            /\ name_space = Put(call.before, call.prog.variable, Fraction(2, 1))
    /\ (call.kind = "call" /\ call.prog.tag = "let" /\ call.prog.e2.tag \in
            {"let_var", "get", "mut_var"}) =>
            name_space = call.before

\* x is in the name_space, not in the scope, and LetVar(x) is undefined
C16_Witness ==
    /\ call.kind = "call" /\ call.prog.tag = "let_var"
    /\ call.prog.name \in DOMAIN call.before
    /\ call.prog.name \notin DOMAIN call.scope
    /\ ret.err = "UndefinedVariable"

\* The condition of an if_statement of Ifs, read off the dictionaries: a
\* leaf, or Get(i) < Get(j).
CondDefined(c, ls, ns) ==
    IF c.tag = "binary_operation"
    THEN LeafDefined(c.left, ls, ns) /\ LeafDefined(c.right, ls, ns)
    ELSE LeafDefined(c, ls, ns)
CondTruthy(c, ls, ns) ==
    IF c.tag = "binary_operation"
    THEN PyLt(LeafValue(c.left, ls, ns), LeafValue(c.right, ls, ns))
    ELSE Truthy(LeafValue(c, ls, ns))

\* What a branch of an if_statement of Ifs does when it alone runs on ns: a
\* literal, a Set of a literal, a Get, or 1 / 0.
BranchOutcome(e, ns) ==
    CASE e.tag = "numeric_literal" -> [err |-> "none", v |-> e.value, ns |-> ns]
      [] e.tag = "set" ->
            [err |-> "none", v |-> Zero, ns |-> Put(ns, e.variable, e.value.value)]
      [] e.tag = "get" ->
            IF e.variable \in DOMAIN ns
            THEN [err |-> "none", v |-> ns[e.variable], ns |-> ns]
            ELSE [err |-> "UndefinedVariable", v |-> Zero, ns |-> ns]
      [] e.tag = "binary_operation" ->
            [err |-> "DivisionByZero", v |-> Zero, ns |-> ns]

\* C17: an if_statement evaluates its condition once and then one branch,
\* then_branch when the condition is truthy and else_branch otherwise; its
\* value, its fault and its writes are those of that branch alone, so a Set
\* or a fault in the other branch has no effect; a write made by the
\* condition happens once and is seen by the branch.
C17_If ==
    /\ (call.kind = "call" /\ call.prog \in Ifs) =>
        LET e == call.prog
        IN  IF ~CondDefined(e.condition, call.scope, call.before)
            THEN ret.err = "UndefinedVariable" /\ name_space = call.before
            ELSE LET taken == IF CondTruthy(e.condition, call.scope, call.before)
                              THEN e.if_exp ELSE e.else_exp
                     o == BranchOutcome(taken, call.before)
                 IN  /\ ret.err = o.err
                     /\ name_space = o.ns
                     /\ (o.err = "none") => ret.v = o.v
    /\ (call.kind = "call" /\ call.prog \in CountingIfs /\ "i" \in DOMAIN call.before) =>
        LET next == Fraction(call.before["i"].n + 1, 1)
        IN  /\ ret.err = "none"
            /\ name_space["i"] = next
            /\ IF call.prog.condition.tag = "set"
               THEN /\ ret.v = Fraction(2, 1)
                    /\ name_space = Put(call.before, "i", next)
               ELSE /\ ret.v = Zero
                    /\ name_space = Put(Put(call.before, "i", next), "j", next)

\* the condition was truthy, the Set of then_branch ran, and the division
\* by zero of else_branch did not
C17_Witness ==
    /\ Completed /\ call.prog \in Ifs
    /\ call.prog.if_exp.tag = "set"
    /\ call.prog.else_exp.tag = "binary_operation"
    /\ name_space # call.before

\* The exception a fault of Faults raises when it runs on ns, "none" when
\* it raises nothing.
FaultRaised(f, ns) ==
    CASE f.tag = "get" ->
            IF f.variable \in DOMAIN ns THEN "none" ELSE "UndefinedVariable"
      [] f.operator = "/" -> "DivisionByZero"
      [] OTHER -> "ProgramNotSupported"

\* C19: when an expression of a Block raises, the name_space the Block ran
\* against is as it was before the Block, also for the variables it already
\* held and earlier expressions of the Block wrote; whereas after a Set
\* outside any Block the write is in the name_space when a later fault ends
\* the evaluation.
C19_BlockAtomic ==
    /\ (call.kind = "call" /\ call.prog.tag = "block" /\ ret.err # "none") =>
            name_space = call.before
    /\ (call.kind = "call" /\ call.prog \in FaultyBlocks) =>
        LET x == call.prog.exps[1].variable
            raised == FaultRaised(call.prog.exps[2],
                                  Put(call.before, x, Fraction(2, 1)))
        IN  /\ ret.err = raised
            /\ (raised # "none") => name_space = call.before
    /\ (call.kind = "call" /\ call.prog \in SetThenFault) =>
        LET written == Put(call.before, call.prog.left.variable, Fraction(2, 1))
        IN  /\ ret.err = FaultRaised(call.prog.right, written)
            /\ name_space = written

\* a Block wrote a variable the name_space held, then divided by zero
C19_Witness ==
    /\ call.kind = "call" /\ call.prog \in FaultyBlocks
    /\ ret.err = "DivisionByZero"
    /\ call.prog.exps[1].variable \in DOMAIN call.before
    /\ call.before[call.prog.exps[1].variable] # Fraction(2, 1)
    /\ name_space = call.before

\* C14: a binary_operation with an arithmetic or comparison operator
\* evaluates its left operand once and then its right operand once, both
\* against the caller's name_space: (x := 2) op x is 0 op 2 and leaves
\* x = 2, and 2 op ((i := i + 1) + 1) is 2 op 1 and adds one to i; the
\* operands of concat and the expressions of a Block run in the same
\* left-to-right order, each seeing the writes of those before it.
C14_LeftToRight ==
    /\ (call.kind = "call" /\ call.prog \in OrderProbes) =>
        LET written == Put(call.before, call.prog.left.variable, Fraction(2, 1))
        IN  /\ ret.err = "none"
            /\ ret.v = ApplyOp(call.prog.operator, Zero, Fraction(2, 1),
                               call.scope, written).v
            /\ name_space = written
    /\ (call.kind = "call" /\ call.prog \in CountingRights
        /\ "i" \in DOMAIN call.before) =>
        LET written == Put(call.before, "i", Fraction(call.before["i"].n + 1, 1))
        IN  /\ ret.err = "none"
            /\ ret.v = ApplyOp(call.prog.operator, Fraction(2, 1), Fraction(1, 1),
                               call.scope, written).v
            /\ name_space = written
    /\ (call.kind = "call" /\ call.prog = WriteThenRead) =>
            /\ ret.err = "none" /\ ret.v = Str("bc")
            /\ name_space = Put(call.before, "i", Fraction(2, 1))
    /\ (call.kind = "call" /\ call.prog \in Concats /\ Len(call.prog.operands) = 3) =>
            /\ ret.err = "TypeError"
            /\ name_space = Put(call.before, "i", Fraction(2, 1))
    /\ (call.kind = "call" /\ call.prog \in Concats
        /\ call.prog.operands[1] = get("j")) =>
            ret.err = IF "j" \in DOMAIN call.before THEN "TypeError"
                      ELSE "UndefinedVariable"
    /\ (call.kind = "call" /\ "j" \in DOMAIN call.before
        /\ call.prog = block(<<set("i", numeric_literal(1)), set("j", get("i"))>>)) =>
            ret.err = "none" /\ name_space["j"] = Fraction(1, 1)
    /\ (call.kind = "call" /\ {"i", "j"} \subseteq DOMAIN call.before
        /\ call.prog = block(<<set("j", get("i")), set("i", numeric_literal(1))>>)) =>
            /\ ret.err = "none"
            /\ name_space["j"] = call.before["i"]
            /\ name_space["i"] = Fraction(1, 1)

(***************************************************************************)
(* Further claims about the tokenizer (continued).                         *)
(***************************************************************************)
\* Stream.pos after the first k of the stream calls cs, made from position p
PosAfter(cs, k, p) ==
    p + Cardinality({j \in 1..k : cs[j] = "next_char"})
      - Cardinality({j \in 1..k : cs[j] = "prev_char"})

\* C18: in every state 0 <= pos <= len(source); every stream call of the
\* method that led to the state found and left pos in that range;
\* prev_char was called only with pos > 0, and only straight after a
\* next_char that returned a character, so never twice in a row and never
\* as the first stream call of a method.
C18_Pushback ==
    /\ pos \in 0..Len(source)
    /\ last.pos0 \in 0..Len(source)
    /\ PosAfter(last.calls, Len(last.calls), last.pos0) = pos
    /\ \A k \in 1..Len(last.calls) :
        LET at == PosAfter(last.calls, k - 1, last.pos0)
        IN  /\ at \in 0..Len(source)
            /\ (last.calls[k] = "next_char") => at < Len(source)
            /\ (last.calls[k] = "EndOfTokens") => at = Len(source)
            /\ (last.calls[k] = "prev_char") =>
                    /\ at > 0
                    /\ k > 1
                    /\ last.calls[k - 1] = "next_char"

\* a scan that did not start at the beginning pushed a character back
C18_Witness ==
    /\ last.op \in {"next_token", "peek_token", "advance", "match", "__next__"}
    /\ last.pos0 > 0
    /\ \E k \in 1..Len(last.calls) : last.calls[k] = "prev_char"
    /\ pos < Len(source)

====
